---------------------------- MODULE Spec2Model ----------------------------
(***************************************************************************)
(* The score / state / leaderboard handlers of src/src/server/index.ts,    *)
(* over a Redis store with string keys and sorted sets.                    *)
(*                                                                         *)
(* Every request runs in a slot p.  A handler is cut at its awaits on the  *)
(* store: one action per store operation, together with the synchronous    *)
(* code that follows it.  Under Spec the steps of different requests       *)
(* interleave freely; under SeqSpec a request starts only when no other    *)
(* request is in flight; under FaultSpec the steps interleave and a call   *)
(* of the store or of the identity provider may throw, and under           *)
(* SeqFaultSpec it may with one request at a time; under FrameSpec the     *)
(* steps interleave and the requests go to two posts.                      *)
(*                                                                         *)
(* The context and reddit.getCurrentUsername() read no state of the store: *)
(* they are inputs drawn when the request arrives, and the code up to the  *)
(* first store call runs in the arrival step.  Without a postId the        *)
(* handler returns before it reads anything else, and the recorded         *)
(* request holds nothing else.                                             *)
(*                                                                         *)
(* An optional JavaScript value (undefined / null) is a sequence of length *)
(* 0 or 1: <<>> is "absent", <<x>> is "x".                                 *)
(*                                                                         *)
(* last, pre, lastWritten, completed, nreq, nresp and nfault are history   *)
(* variables: no handler reads them.                                       *)
(***************************************************************************)
EXTENDS Integers, Sequences, FiniteSets, TLC

---------------------------------------------------------------------------
(* Bounds of the model *)

\* number of request slots (requests that may be in flight together)
NumProcs == 2
\* number of requests started in one behaviour with interleaving (Spec)
MaxRequests == 2
\* number of requests started in one behaviour, one at a time (SeqSpec)
MaxSeqRequests == 3
\* number of UTC midnights the clock passes
MaxDay == 1
\* number of requests started in one behaviour in which calls may throw (FaultSpec)
MaxFaultRequests == 2
\* number of requests started in one behaviour over two posts (FrameSpec)
MaxFrameRequests == 2
\* number of requests started in one behaviour, one at a time, in which calls
\* may throw (SeqFaultSpec)
MaxSeqFaultRequests == 2

Procs == 1..NumProcs

---------------------------------------------------------------------------
(* Inputs *)

Posts == {"p1"}
\* the posts of FrameSpec, where requests go to two posts
TwoPosts == {"p1", "p2"}
Users == {"alice", "bob"}
\* redis orders members of equal score lexicographically
MemberOrder == <<"alice", "bob">>

None == <<>>
Some(x) == <<x>>

\* reddit.getCurrentUsername(): a user name or null
CurrentUsers == {None} \cup {Some(u) : u \in Users}
\* context.postId: a post id or undefined
ContextPosts == {None} \cup {Some(q) : q \in Posts}

\* values of body.score
NumV(n) == [kind |-> "number", v |-> n]
NaNV == [kind |-> "NaN", v |-> 0]
InfV == [kind |-> "Infinity", v |-> 0]
NegInfV == [kind |-> "-Infinity", v |-> 0]
StrV == [kind |-> "string", v |-> 0]
UndefV == [kind |-> "undefined", v |-> 0]

\* the numbers a user submits: below 0, in range, above 1_000_000_000; the two
\* users can tie at 500; a caller without a login sends 500
RawScores(u) ==
    CASE u = "alice" -> {-7, 300, 500}
      [] u = "bob" -> {500, 700, 1000000007}
      [] OTHER -> {500}
ScoreValues(u) == {NumV(n) : n \in RawScores(u)} \cup {NaNV, InfV, NegInfV, StrV, UndefV}

\* values of body.data
EmptyProps == <<>>
ObjV(f) == [kind |-> "object", props |-> f]
ArrV(f) == [kind |-> "array", props |-> f]
NullD == [kind |-> "null", props |-> EmptyProps]
StrD == [kind |-> "string", props |-> EmptyProps]
UndefD == [kind |-> "undefined", props |-> EmptyProps]

DataValues ==
    { UndefD, NullD, StrD,
      ObjV("level" :> "3"),
      ObjV("level" :> "5" @@ "date" :> "old"),
      ArrV("0" :> "x") }

\* typeof x
TypeOf(x) ==
    CASE x.kind \in {"number", "NaN", "Infinity", "-Infinity"} -> "number"
      [] x.kind \in {"object", "array", "null"} -> "object"
      [] x.kind = "string" -> "string"
      [] OTHER -> "undefined"

\* Number.isFinite(x), for x of type number
IsFinite(x) == x.kind = "number"

Max(a, b) == IF a >= b THEN a ELSE b
Min(a, b) == IF a <= b THEN a ELSE b

---------------------------------------------------------------------------
(* The clock.  now counts the UTC days since StartDate; Date.now() is      *)
(* modelled at that resolution.                                            *)

StartDate == [yyyy |-> 2026, mm |-> 12, dd |-> 31]

IsLeap(y) == (y % 4 = 0 /\ y % 100 /= 0) \/ y % 400 = 0

DaysInMonth(y, m) ==
    CASE m \in {4, 6, 9, 11} -> 30
      [] m = 2 -> IF IsLeap(y) THEN 29 ELSE 28
      [] OTHER -> 31

NextDate(d) ==
    IF d.dd < DaysInMonth(d.yyyy, d.mm) THEN [d EXCEPT !.dd = d.dd + 1]
    ELSE IF d.mm < 12 THEN [d EXCEPT !.mm = d.mm + 1, !.dd = 1]
    ELSE [yyyy |-> d.yyyy + 1, mm |-> 1, dd |-> 1]

RECURSIVE UTCDate(_)
UTCDate(n) == IF n = 0 THEN StartDate ELSE NextDate(UTCDate(n - 1))

\* getUtcDayInteger() with its default arguments, at clock reading n
getUtcDayInteger(n) ==
    LET date == UTCDate(n)
        yyyy == date.yyyy
        mm == date.mm
        dd == date.dd
        outDate == yyyy * 10000 + mm * 100 + dd
    IN  ToString(outDate)

\* values of the query parameter date
DateParams == {None} \cup {Some(getUtcDayInteger(n)) : n \in 0..MaxDay}

\* values of the query parameter limit, after Number(req.query.limit ?? 10)
LimitParams == {None, Some(NaNV), Some(NumV(0)), Some(NumV(1)), Some(NumV(500))}

---------------------------------------------------------------------------
(* Keys *)

\* a plausible slip: the user left out of the key
stateKeyNoUser(postId, username) == "state:" \o postId

\* lines 85-87
stateKey(postId, username) == "state:" \o postId \o ":" \o username

\* a plausible slip: one global set for all the posts
leaderboardKeyNoPost(postId) == "lb"

\* lines 89-91
leaderboardKey(postId) == "lb:" \o postId

\* a plausible slip: the day left out of the key
dailyLeaderboardKeyNoDate(postId, date) == "lb:" \o postId

\* lines 93-95
dailyLeaderboardKey(postId, date) == "lb:" \o postId \o ":" \o date

\* getUsername(): null is mapped to "anonymous"
getUsername(u) == IF u = None THEN "anonymous" ELSE u[1]

\* JSON.stringify / JSON.parse of a StoredState.  The objects the handlers
\* build hold no undefined property, so no property is dropped; the text
\* is kept apart from the object it encodes.
JSONstringify(o) == [json |-> o]
JSONparse(s) == s.json


---------------------------------------------------------------------------
(* The store: redis string keys (kv) and sorted sets (zsets).  A key that  *)
(* was never written is not in the domain.  The operators take the store   *)
(* they read as an argument.                                               *)

\* redis.get(key): the string, or undefined
redisGet(store, key) == IF key \in DOMAIN store THEN Some(store[key]) ELSE None

\* redis.set(key, value)
redisSet(store, key, value) ==
    [k \in DOMAIN store \cup {key} |-> IF k = key THEN value ELSE store[k]]

\* the members of the sorted set at key
zMembers(zs, key) == IF key \in DOMAIN zs THEN DOMAIN zs[key] ELSE {}

\* redis.zScore(key, member): the score, or undefined
zScore(zs, key, member) ==
    IF member \in zMembers(zs, key) THEN Some(zs[key][member]) ELSE None

\* redis.zAdd(key, {score, member}): add the member or replace its score
zAdd(zs, key, score, member) ==
    LET old == IF key \in DOMAIN zs THEN zs[key] ELSE <<>>
        new == [m \in DOMAIN old \cup {member} |-> IF m = member THEN score ELSE old[m]]
    IN  [k \in DOMAIN zs \cup {key} |-> IF k = key THEN new ELSE zs[k]]

\* redis.zCard(key)
zCard(zs, key) == Cardinality(zMembers(zs, key))

MemberIndex(m) == CHOOSE i \in 1..Len(MemberOrder) : MemberOrder[i] = m

\* the order of a sorted set: by score, then by member
zBefore(zs, key, a, b) ==
    \/ zs[key][a] < zs[key][b]
    \/ zs[key][a] = zs[key][b] /\ MemberIndex(a) < MemberIndex(b)

\* redis.zRank(key, member): the 0-indexed ascending rank, or undefined
zRank(zs, key, member) ==
    IF member \in zMembers(zs, key)
    THEN Some(Cardinality({m \in zMembers(zs, key) : zBefore(zs, key, m, member)}))
    ELSE None

\* redis.zRange(key, start, stop): the entries of ascending rank start..stop
zRange(zs, key, start, stop) ==
    LET last == Min(stop, zCard(zs, key) - 1)
        at(r) == CHOOSE m \in zMembers(zs, key) : zRank(zs, key, m) = Some(r)
    IN  [i \in 1..(last - start + 1) |->
            [member |-> at(start + i - 1), score |-> zs[key][at(start + i - 1)]]]

---------------------------------------------------------------------------
(* The vocabulary of the properties, stated apart from the handlers' code: *)
(* the history variables below are kept in these terms.                    *)

\* the closed range a stored score lies in
Clamp(x) == IF x < 0 THEN 0 ELSE IF x > 1000000000 THEN 1000000000 ELSE x

\* the YYYYMMDD label of the UTC day at clock reading n
DayLabel(n) ==
    CASE n = 0 -> "20261231"
      [] n = 1 -> "20270101"
      [] n = 2 -> "20270102"
      [] n = 3 -> "20270103"

\* the sorted sets and the state record of the data model
GlobalSet(postId) == "lb:" \o postId
DailySet(postId, label) == "lb:" \o postId \o ":" \o label
StateRecord(postId, username) == "state:" \o postId \o ":" \o username

\* f with the value at k raised to at least v
Raise(f, k, v) ==
    [x \in DOMAIN f \cup {k} |->
        IF x /= k THEN f[x] ELSE IF k \in DOMAIN f /\ f[k] >= v THEN f[k] ELSE v]

---------------------------------------------------------------------------
(* State *)

VARIABLES
    zsets,        \* sorted sets: key -> (member -> score)
    kv,           \* string keys: key -> JSON text
    now,          \* the clock
    pc,           \* per slot: the await the request in it stands at
    req,          \* per slot: the request, as far as the handler has read it
    loc,          \* per slot: the handler's local variables
    pre,          \* per slot: the caller's entries when the request arrived
    last,         \* the request answered last, with its response (until the next arrives)
    lastWritten,  \* history: <<post, user>> -> the StoredState a POST handler wrote last
    completed,    \* history: <<post, scope, user>> -> the highest clamped score among
                  \*          the user's submissions answered 200; scope is "global"
                  \*          or the label of the day the submission arrived on
    nreq,         \* requests started so far
    nresp,        \* responses sent so far
    nfault        \* calls of the store or of the identity provider that threw so far

vars ==
    <<zsets, kv, now, pc, req, loc, pre, last, lastWritten, completed, nreq, nresp, nfault>>

NoReq ==
    [handler |-> "", postId |-> None, user |-> None, score |-> UndefV,
     data |-> UndefD, limit |-> None, date |-> None]

NoLoc ==
    [postId |-> "", username |-> "", sanitized |-> 0, dateBucket |-> "",
     pending |-> {}, existingGlobal |-> None, existingDaily |-> None,
     next |-> None, limit |-> 0, entries |-> <<>>, ascRank |-> None, total |-> 0]

NoResp == [status |-> 0, body |-> <<>>]

NoPre == [global |-> None, daily |-> None, state |-> None, now |-> 0]

NoLast == [req |-> NoReq, resp |-> NoResp, pre |-> NoPre]

Init ==
    /\ zsets = <<>>
    /\ kv = <<>>
    /\ now = 0
    /\ pc = [p \in Procs |-> "idle"]
    /\ req = [p \in Procs |-> NoReq]
    /\ loc = [p \in Procs |-> NoLoc]
    /\ pre = [p \in Procs |-> NoPre]
    /\ last = NoLast
    /\ lastWritten = <<>>
    /\ completed = <<>>
    /\ nreq = 0
    /\ nresp = 0
    /\ nfault = 0

\* a UTC midnight passes
Tick ==
    /\ now < MaxDay
    /\ now' = now + 1
    /\ UNCHANGED <<zsets, kv, pc, req, loc, pre, last, lastWritten, completed, nreq,
                   nresp, nfault>>

\* a request may start in slot p: the lowest free slot takes it
CanStart(p, max) ==
    /\ pc[p] = "idle"
    /\ \A q \in Procs : q < p => pc[q] /= "idle"
    /\ nreq < max

\* no request is in flight
Quiescent == \A q \in Procs : pc[q] = "idle"

\* the entries of the caller when the request arrives
Snapshot(postId, username) ==
    [global |-> zScore(zsets, GlobalSet(postId), username),
     daily |-> zScore(zsets, DailySet(postId, DayLabel(now)), username),
     state |-> redisGet(kv, StateRecord(postId, username)),
     now |-> now]

\* the handler answers the request r on arrival, before any store access
Reject(p, r, status, body) ==
    /\ last' = [req |-> r, resp |-> [status |-> status, body |-> body], pre |-> NoPre]
    /\ nreq' = nreq + 1
    /\ nresp' = nresp + 1
    /\ UNCHANGED <<pc, req, loc, pre>>

\* the request r is accepted in slot p and goes to its first await
Accept(p, r, label, locals) ==
    /\ req' = [req EXCEPT ![p] = r]
    /\ pre' = [pre EXCEPT ![p] = Snapshot(locals.postId, locals.username)]
    /\ pc' = [pc EXCEPT ![p] = label]
    /\ loc' = [loc EXCEPT ![p] = locals]
    /\ nreq' = nreq + 1
    /\ last' = NoLast
    /\ UNCHANGED nresp

\* the handler goes on to its next await
Goto(p, label, locals) ==
    /\ pc' = [pc EXCEPT ![p] = label]
    /\ loc' = [loc EXCEPT ![p] = locals]
    /\ UNCHANGED <<req, pre, last, nreq, nresp>>

\* res.status(status).json(body): the handler returns
Respond(p, status, body) ==
    /\ last' = [req |-> req[p], resp |-> [status |-> status, body |-> body], pre |-> pre[p]]
    /\ pc' = [pc EXCEPT ![p] = "idle"]
    /\ req' = [req EXCEPT ![p] = NoReq]
    /\ loc' = [loc EXCEPT ![p] = NoLoc]
    /\ pre' = [pre EXCEPT ![p] = NoPre]
    /\ nresp' = nresp + 1
    /\ UNCHANGED nreq

Both == {"global", "daily"}

---------------------------------------------------------------------------
(* POST /api/score *)

\* a plausible slip: the upper clamp left out
SanitizeNoCap(score) == Max(0, score)

\* a plausible slip: the lower clamp left out
SanitizeNoFloor(score) == Min(score, 1000000000)

\* line 177
Sanitize(score) == Max(0, Min(score, 1000000000))

\* existing !== undefined && existing !== null ? Number(existing) : -1
ScoreOr(existing) == IF existing /= None THEN existing[1] ELSE -1

\* a plausible slip: an existing score kept whatever the submitted one is
BestScoreExisting(existing, sanitized) ==
    IF existing /= None THEN existing[1] ELSE sanitized

\* a plausible slip: the submitted score stored whatever the existing one is
BestScoreOverwrite(existing, sanitized) == sanitized

\* lines 192-193
BestScore(existing, sanitized) == Max(ScoreOr(existing), sanitized)

\* a plausible slip: a tie counted as a new best
IsNewBestOrTie(existing, sanitized) == sanitized >= ScoreOr(existing)

\* line 195
IsNewBest(existing, sanitized) == sanitized > ScoreOr(existing)

\* a plausible slip: the ascending rank 1-indexed, not inverted
InvertRankAscending(ascRank, totalPlayers) ==
    IF ascRank /= None THEN ascRank[1] + 1 ELSE 0

\* a plausible slip: the inverted rank left 0-indexed
InvertRankZeroBased(ascRank, totalPlayers) ==
    IF ascRank /= None THEN totalPlayers - 1 - ascRank[1] ELSE 0

\* lines 229-233: totalPlayers - ascRank, 0 without an ascRank
InvertRank(ascRank, totalPlayers) ==
    IF ascRank /= None THEN totalPlayers - ascRank[1] ELSE 0

\* a plausible slip: the previous data dropped
MergeDateOnly(prev, dateBucket) == ObjV("date" :> dateBucket)

\* {...(prev.data || {}), date: dateBucket}
MergeDate(prev, dateBucket) ==
    LET old == IF "data" \in DOMAIN prev THEN prev.data.props ELSE EmptyProps
    IN  ObjV(("date" :> dateBucket) @@ old)

\* a plausible slip: the test made on the raw null, after it was mapped
LoginRequiredOnNull(username) == username = ""

\* lines 131 and 168: username === "anonymous"
LoginRequired(username) == username = "anonymous"

\* a plausible slip: the type tested, the finiteness not
InvalidScoreTypeOnly(score) == TypeOf(score) /= "number"

\* line 173: typeof score !== "number" || !Number.isFinite(score)
InvalidScore(score) == TypeOf(score) /= "number" \/ ~IsFinite(score)

ScoreReq == [NoReq EXCEPT !.handler = "POST /api/score"]

\* lines 162-180: context, identity, validation, sanitization, keys
ScoreBegin(p, max, posts) ==
    /\ CanStart(p, max)
    /\ \/ Reject(p, ScoreReq, 400, [error |-> "Missing postId"])
       \/ \E q \in posts, cu \in CurrentUsers : \E score \in ScoreValues(getUsername(cu)) :
            LET username == getUsername(cu)
                r == [ScoreReq EXCEPT !.postId = Some(q), !.user = cu, !.score = score]
            IN  IF LoginRequired(username)
                THEN Reject(p, r, 401, [error |-> "Login required"])
                ELSE IF InvalidScore(score)
                THEN Reject(p, r, 400, [error |-> "Invalid score"])
                ELSE Accept(p, r, "score:zScore",
                            [NoLoc EXCEPT !.postId = q, !.username = username,
                                          !.sanitized = Sanitize(score.v),
                                          !.dateBucket = getUtcDayInteger(now),
                                          !.pending = Both])
    /\ UNCHANGED <<zsets, kv, now, lastWritten, completed, nfault>>

\* lines 183-186: the two reads of Promise.all, in either order
ScoreZScore(p) ==
    /\ pc[p] = "score:zScore"
    /\ \E which \in loc[p].pending :
        LET l == loc[p]
            lbKey == leaderboardKey(l.postId)
            dailyKey == dailyLeaderboardKey(l.postId, l.dateBucket)
            read == IF which = "global"
                    THEN [l EXCEPT !.existingGlobal = zScore(zsets, lbKey, l.username)]
                    ELSE [l EXCEPT !.existingDaily = zScore(zsets, dailyKey, l.username)]
            left == l.pending \ {which}
        IN  IF left = {}
            THEN Goto(p, "score:zAdd", [read EXCEPT !.pending = Both])
            ELSE Goto(p, "score:zScore", [read EXCEPT !.pending = left])
    /\ UNCHANGED <<zsets, kv, now, lastWritten, completed, nfault>>

\* lines 198-201: the two upserts of Promise.all, in either order
ScoreZAdd(p) ==
    /\ pc[p] = "score:zAdd"
    /\ \E which \in loc[p].pending :
        LET l == loc[p]
            lbKey == leaderboardKey(l.postId)
            dailyKey == dailyLeaderboardKey(l.postId, l.dateBucket)
            bestGlobal == BestScore(l.existingGlobal, l.sanitized)
            bestDaily == BestScore(l.existingDaily, l.sanitized)
            left == l.pending \ {which}
        IN  /\ zsets' = IF which = "global"
                        THEN zAdd(zsets, lbKey, bestGlobal, l.username)
                        ELSE zAdd(zsets, dailyKey, bestDaily, l.username)
            /\ IF left = {}
               THEN Goto(p, "score:get", [l EXCEPT !.pending = {}])
               ELSE Goto(p, "score:zAdd", [l EXCEPT !.pending = left])
    /\ UNCHANGED <<kv, now, lastWritten, completed, nfault>>

\* lines 204-216: read the state record and build the next one
ScoreGet(p) ==
    /\ pc[p] = "score:get"
    /\ LET l == loc[p]
           sKey == stateKey(l.postId, l.username)
           prevRaw == redisGet(kv, sKey)
           prev == IF prevRaw /= None THEN JSONparse(prevRaw[1]) ELSE <<>>
           next == [username |-> l.username,
                    updatedAt |-> now,
                    bestScore |-> BestScore(l.existingGlobal, l.sanitized),
                    data |-> MergeDate(prev, l.dateBucket)]
       IN  Goto(p, "score:set", [l EXCEPT !.next = Some(next)])
    /\ UNCHANGED <<zsets, kv, now, lastWritten, completed, nfault>>

\* line 217
ScoreSet(p) ==
    /\ pc[p] = "score:set"
    /\ LET l == loc[p]
           sKey == stateKey(l.postId, l.username)
       IN  /\ kv' = redisSet(kv, sKey, JSONstringify(l.next[1]))
           /\ lastWritten' = redisSet(lastWritten, <<l.postId, l.username>>, l.next[1])
           /\ Goto(p, "score:zRank", l)
    /\ UNCHANGED <<zsets, now, completed, nfault>>

\* line 226
ScoreZRank(p) ==
    /\ pc[p] = "score:zRank"
    /\ LET l == loc[p]
       IN  Goto(p, "score:zCard",
                [l EXCEPT !.ascRank = zRank(zsets, leaderboardKey(l.postId), l.username)])
    /\ UNCHANGED <<zsets, kv, now, lastWritten, completed, nfault>>

\* lines 227-245: the cardinality, the rank and the response
ScoreZCard(p) ==
    /\ pc[p] = "score:zCard"
    /\ LET l == loc[p]
           totalPlayers == zCard(zsets, leaderboardKey(l.postId))
           scoreData == [success |-> TRUE,
                         score |-> BestScore(l.existingGlobal, l.sanitized),
                         rank |-> InvertRank(l.ascRank, totalPlayers),
                         totalPlayers |-> totalPlayers,
                         isNewBest |-> IsNewBest(l.existingGlobal, l.sanitized),
                         updatedAt |-> l.next[1].updatedAt,
                         dateBucket |-> l.dateBucket]
       IN  /\ Respond(p, 200, scoreData)
           /\ completed' =
                Raise(Raise(completed, <<l.postId, "global", l.username>>, Clamp(req[p].score.v)),
                      <<l.postId, DayLabel(pre[p].now), l.username>>, Clamp(req[p].score.v))
    /\ UNCHANGED <<zsets, kv, now, lastWritten, nfault>>

---------------------------------------------------------------------------
(* GET /api/init *)

InitReq == [NoReq EXCEPT !.handler = "GET /api/init"]

\* lines 26-54: no store access
InitHandler(p, max, posts) ==
    /\ CanStart(p, max)
    /\ \/ Reject(p, InitReq, 400,
                 [status |-> "error", message |-> "postId is required but missing from context"])
       \/ \E q \in posts, cu \in CurrentUsers :
            Reject(p, [InitReq EXCEPT !.postId = Some(q), !.user = cu], 200,
                   [type |-> "init", postId |-> q, username |-> getUsername(cu)])
    /\ UNCHANGED <<zsets, kv, now, lastWritten, completed, nfault>>

---------------------------------------------------------------------------
(* GET /api/state *)

GetStateReq == [NoReq EXCEPT !.handler = "GET /api/state"]

\* lines 103-109
GetStateBegin(p, max, posts) ==
    /\ CanStart(p, max)
    /\ \/ Reject(p, GetStateReq, 400, [error |-> "Missing postId in context"])
       \/ \E q \in posts, cu \in CurrentUsers :
            Accept(p, [GetStateReq EXCEPT !.postId = Some(q), !.user = cu], "getState:get",
                   [NoLoc EXCEPT !.postId = q, !.username = getUsername(cu)])
    /\ UNCHANGED <<zsets, kv, now, lastWritten, completed, nfault>>

\* lines 110-116
GetStateGet(p) ==
    /\ pc[p] = "getState:get"
    /\ LET l == loc[p]
           json == redisGet(kv, stateKey(l.postId, l.username))
       IN  IF json = None
           THEN Respond(p, 404, [error |-> "No state found"])
           ELSE Respond(p, 200, JSONparse(json[1]))
    /\ UNCHANGED <<zsets, kv, now, lastWritten, completed, nfault>>

---------------------------------------------------------------------------
(* POST /api/state *)

PostStateReq == [NoReq EXCEPT !.handler = "POST /api/state"]

\* data !== undefined && (typeof data !== "object" || data === null)
BadData(data) ==
    TypeOf(data) /= "undefined" /\ (TypeOf(data) /= "object" \/ data.kind = "null")

\* a plausible slip: the previous bestScore not carried over
NextStateNoBest(username, updatedAt, data, prev) ==
    LET dataPart == IF TypeOf(data) /= "undefined" THEN [data |-> data]
                    ELSE IF "data" \in DOMAIN prev THEN [data |-> prev.data]
                    ELSE <<>>
    IN  [username |-> username, updatedAt |-> updatedAt] @@ dataPart

\* lines 143-148: the record written, from the request's data and the previous record
NextState(username, updatedAt, data, prev) ==
    LET dataPart == IF TypeOf(data) /= "undefined" THEN [data |-> data]
                    ELSE IF "data" \in DOMAIN prev THEN [data |-> prev.data]
                    ELSE <<>>
        bestPart == IF "bestScore" \in DOMAIN prev THEN [bestScore |-> prev.bestScore]
                    ELSE <<>>
    IN  [username |-> username, updatedAt |-> updatedAt] @@ dataPart @@ bestPart

\* lines 125-138
PostStateBegin(p, max, posts) ==
    /\ CanStart(p, max)
    /\ \/ Reject(p, PostStateReq, 400, [error |-> "Missing postId in context"])
       \/ \E q \in posts, cu \in CurrentUsers, data \in DataValues :
            LET username == getUsername(cu)
                r == [PostStateReq EXCEPT !.postId = Some(q), !.user = cu, !.data = data]
            IN  IF LoginRequired(username)
                THEN Reject(p, r, 401, [error |-> "Login required"])
                ELSE IF BadData(data)
                THEN Reject(p, r, 400, [error |-> "data must be an object"])
                ELSE Accept(p, r, "postState:get",
                            [NoLoc EXCEPT !.postId = q, !.username = username])
    /\ UNCHANGED <<zsets, kv, now, lastWritten, completed, nfault>>

\* lines 139-148
PostStateGet(p) ==
    /\ pc[p] = "postState:get"
    /\ LET l == loc[p]
           prevRaw == redisGet(kv, stateKey(l.postId, l.username))
           prev == IF prevRaw /= None THEN JSONparse(prevRaw[1]) ELSE <<>>
           next == NextState(l.username, now, req[p].data, prev)
       IN  Goto(p, "postState:set", [l EXCEPT !.next = Some(next)])
    /\ UNCHANGED <<zsets, kv, now, lastWritten, completed, nfault>>

\* lines 150-154
PostStateSet(p) ==
    /\ pc[p] = "postState:set"
    /\ LET l == loc[p]
           key == stateKey(l.postId, l.username)
       IN  /\ kv' = redisSet(kv, key, JSONstringify(l.next[1]))
           /\ lastWritten' = redisSet(lastWritten, <<l.postId, l.username>>, l.next[1])
           /\ Respond(p, 200, l.next[1])
    /\ UNCHANGED <<zsets, now, completed, nfault>>

---------------------------------------------------------------------------
(* GET /api/leaderboard *)

LeaderboardReq == [NoReq EXCEPT !.handler = "GET /api/leaderboard"]

\* a plausible slip: a limit that is not finite taken as the lowest one
LimitFallbackOne(param) ==
    LET limitParam == IF param = None THEN NumV(10) ELSE param[1]
    IN  IF IsFinite(limitParam) THEN Max(1, Min(limitParam.v, 100)) ELSE 1

\* lines 262-263: Number(req.query.limit ?? 10), clamped to [1, 100]
Limit(param) ==
    LET limitParam == IF param = None THEN NumV(10) ELSE param[1]
    IN  IF IsFinite(limitParam) THEN Max(1, Min(limitParam.v, 100)) ELSE 10

\* a plausible slip: the date parameter ignored
EffectiveDateToday(dateParam, n) == getUtcDayInteger(n)

\* line 270: dateParam ?? getUtcDayInteger()
EffectiveDate(dateParam, n) == IF dateParam /= None THEN dateParam[1] ELSE getUtcDayInteger(n)

\* lines 277-288: the entries with rank = index + 1
Top(entries, effectiveDate) ==
    [i \in 1..Len(entries) |->
        [rank |-> i, username |-> entries[i].member, score |-> entries[i].score,
         date |-> effectiveDate]]

\* a plausible slip: the ascending rank not flipped
MeRank0Ascending(ascRank, total) == ascRank

\* lines 295-298: the caller's 0-indexed descending rank
MeRank0(ascRank, total) ==
    IF ascRank /= None /\ total /= 0 THEN Some(total - 1 - ascRank[1]) ELSE ascRank

\* lines 310-316
DataOut(l, me) ==
    [top |-> Top(l.entries, l.dateBucket), me |-> me, totalPlayers |-> l.total,
     generatedAt |-> now, filterDate |-> l.dateBucket]

\* lines 254-271
LeaderboardBegin(p, max, posts) ==
    /\ CanStart(p, max)
    /\ \/ Reject(p, LeaderboardReq, 400, [error |-> "Missing postId in context"])
       \/ \E q \in posts, cu \in CurrentUsers, limit \in LimitParams, date \in DateParams :
            Accept(p, [LeaderboardReq EXCEPT !.postId = Some(q), !.user = cu,
                                             !.limit = limit, !.date = date],
                   "leaderboard:zRange",
                   [NoLoc EXCEPT !.postId = q, !.username = getUsername(cu),
                                 !.limit = Limit(limit),
                                 !.dateBucket = EffectiveDate(date, now)])
    /\ UNCHANGED <<zsets, kv, now, lastWritten, completed, nfault>>

\* line 274
LeaderboardZRange(p) ==
    /\ pc[p] = "leaderboard:zRange"
    /\ LET l == loc[p]
           lbKey == dailyLeaderboardKey(l.postId, l.dateBucket)
       IN  Goto(p, "leaderboard:zRank",
                [l EXCEPT !.entries = zRange(zsets, lbKey, 0, l.limit - 1)])
    /\ UNCHANGED <<zsets, kv, now, lastWritten, completed, nfault>>

\* line 293
LeaderboardZRank(p) ==
    /\ pc[p] = "leaderboard:zRank"
    /\ LET l == loc[p]
           lbKey == dailyLeaderboardKey(l.postId, l.dateBucket)
       IN  Goto(p, "leaderboard:zCard", [l EXCEPT !.ascRank = zRank(zsets, lbKey, l.username)])
    /\ UNCHANGED <<zsets, kv, now, lastWritten, completed, nfault>>

\* lines 294-301, and 310-319 when me stays null
LeaderboardZCard(p) ==
    /\ pc[p] = "leaderboard:zCard"
    /\ LET l == loc[p]
           lbKey == dailyLeaderboardKey(l.postId, l.dateBucket)
           counted == [l EXCEPT !.total = zCard(zsets, lbKey)]
       IN  IF MeRank0(l.ascRank, counted.total) /= None
           THEN Goto(p, "leaderboard:zScore", counted)
           ELSE Respond(p, 200, DataOut(counted, None))
    /\ UNCHANGED <<zsets, kv, now, lastWritten, completed, nfault>>

\* lines 302-319: Number((await redis.zScore(lbKey, username)) ?? 0)
LeaderboardZScore(p) ==
    /\ pc[p] = "leaderboard:zScore"
    /\ LET l == loc[p]
           lbKey == dailyLeaderboardKey(l.postId, l.dateBucket)
           found == zScore(zsets, lbKey, l.username)
           me == [rank |-> MeRank0(l.ascRank, l.total)[1] + 1,
                  username |-> l.username,
                  score |-> IF found /= None THEN found[1] ELSE 0,
                  date |-> l.dateBucket]
       IN  Respond(p, 200, DataOut(l, Some(me)))
    /\ UNCHANGED <<zsets, kv, now, lastWritten, completed, nfault>>

---------------------------------------------------------------------------
(* Calls that throw.  A call of the store that throws has no effect on the  *)
(* store.  The two calls of a Promise.all are both issued before either is  *)
(* awaited: when one throws the handler is in its catch block while the     *)
(* other may still take effect, which is modelled in the same step.         *)

StoreHandlers ==
    {"GET /api/state", "POST /api/state", "POST /api/score", "GET /api/leaderboard"}

\* a plausible slip: the catch blocks answering as the one of /api/init does
FailureBadRequest(handler) ==
    [status |-> 400, body |-> [status |-> "error", message |-> "Unknown error"]]

\* the catch blocks of the handlers: lines 118-121, 155-158, 247-250, 320-323
Failure(handler) ==
    [status |-> 500,
     body |-> [error |-> CASE handler = "GET /api/state" -> "Failed to fetch state"
                           [] handler = "POST /api/state" -> "Failed to save state"
                           [] handler = "POST /api/score" -> "Failed to submit score"
                           [] handler = "GET /api/leaderboard" -> "Failed to fetch leaderboard"]]

\* lines 46-53: the catch block of /api/init
InitFailure ==
    [status |-> 400,
     body |-> [status |-> "error", message |-> "Initialization failed: " \o "provider error"]]

\* reddit.getCurrentUsername() throws: the handler has read the postId only
IdentityThrows(p, max) ==
    /\ CanStart(p, max)
    /\ \E q \in Posts :
        \/ Reject(p, [InitReq EXCEPT !.postId = Some(q)], InitFailure.status, InitFailure.body)
        \/ \E h \in StoreHandlers :
             Reject(p, [NoReq EXCEPT !.handler = h, !.postId = Some(q)],
                    Failure(h).status, Failure(h).body)
    /\ nfault' = nfault + 1
    /\ UNCHANGED <<zsets, kv, now, lastWritten, completed>>

\* the store call the request in slot p stands at throws
StoreThrows(p) ==
    /\ pc[p] /= "idle"
    /\ LET l == loc[p]
           caught == Failure(req[p].handler)
       IN  /\ IF pc[p] = "score:zAdd"
              THEN \E landed \in SUBSET l.pending :
                     /\ landed /= l.pending
                     /\ LET bestGlobal == BestScore(l.existingGlobal, l.sanitized)
                            bestDaily == BestScore(l.existingDaily, l.sanitized)
                            global == IF "global" \in landed
                                      THEN zAdd(zsets, leaderboardKey(l.postId),
                                                bestGlobal, l.username)
                                      ELSE zsets
                        IN  zsets' = IF "daily" \in landed
                                     THEN zAdd(global,
                                               dailyLeaderboardKey(l.postId, l.dateBucket),
                                               bestDaily, l.username)
                                     ELSE global
              ELSE zsets' = zsets
           /\ Respond(p, caught.status, caught.body)
    /\ nfault' = nfault + 1
    /\ UNCHANGED <<kv, now, lastWritten, completed>>

---------------------------------------------------------------------------
(* The specifications *)

\* a request arrives in slot p
Begin(p, max, posts) ==
    \/ InitHandler(p, max, posts)
    \/ GetStateBegin(p, max, posts)
    \/ PostStateBegin(p, max, posts)
    \/ ScoreBegin(p, max, posts)
    \/ LeaderboardBegin(p, max, posts)

\* the request in slot p performs its next store operation
Step(p) ==
    \/ GetStateGet(p)
    \/ PostStateGet(p)
    \/ PostStateSet(p)
    \/ ScoreZScore(p)
    \/ ScoreZAdd(p)
    \/ ScoreGet(p)
    \/ ScoreSet(p)
    \/ ScoreZRank(p)
    \/ ScoreZCard(p)
    \/ LeaderboardZRange(p)
    \/ LeaderboardZRank(p)
    \/ LeaderboardZCard(p)
    \/ LeaderboardZScore(p)

\* requests interleave at their awaits
Next ==
    \/ Tick
    \/ \E p \in Procs : Begin(p, MaxRequests, Posts) \/ Step(p)

Spec == Init /\ [][Next]_vars

\* requests one at a time: a request starts only when none is in flight
SeqNext ==
    \/ Tick
    \/ \E p \in Procs : (Quiescent /\ Begin(p, MaxSeqRequests, Posts)) \/ Step(p)

SeqSpec == Init /\ [][SeqNext]_vars

\* requests interleave at their awaits, and a call may throw
FaultNext ==
    \/ Tick
    \/ \E p \in Procs :
        \/ Begin(p, MaxFaultRequests, Posts)
        \/ IdentityThrows(p, MaxFaultRequests)
        \/ Step(p)
        \/ StoreThrows(p)

FaultSpec == Init /\ [][FaultNext]_vars

\* requests one at a time, and a call may throw
SeqFaultNext ==
    \/ Tick
    \/ \E p \in Procs :
        \/ Quiescent /\ Begin(p, MaxSeqFaultRequests, Posts)
        \/ Quiescent /\ IdentityThrows(p, MaxSeqFaultRequests)
        \/ Step(p)
        \/ StoreThrows(p)

SeqFaultSpec == Init /\ [][SeqFaultNext]_vars

\* requests to two posts interleave at their awaits
FrameNext ==
    \/ Tick
    \/ \E p \in Procs : Begin(p, MaxFrameRequests, TwoPosts) \/ Step(p)

FrameSpec == Init /\ [][FrameNext]_vars

---------------------------------------------------------------------------
(* Properties *)

\* the request answered last went to handler h and was answered with status s,
\* and no request has arrived since
Answered(h, s) == Quiescent /\ last.req.handler = h /\ last.resp.status = s

\* the score stored for user u in a scope of post q ("global" or a day label)
Stored(q, scope, u) ==
    zScore(zsets, IF scope = "global" THEN GlobalSet(q) ELSE DailySet(q, scope), u)

\* the global score of the caller when the request answered last arrived, absent as -1
PreviousGlobal == IF last.pre.global = None THEN -1 ELSE last.pre.global[1]

\* the bestScore of the record at key k of the store, if there is one
BestScoreAt(store, k) ==
    IF k \in DOMAIN store /\ "bestScore" \in DOMAIN JSONparse(store[k])
    THEN Some(JSONparse(store[k]).bestScore)
    ELSE None

\* C1: under any interleaving of POST /api/score requests, the score stored for a
\* member of a global or daily set never decreases from one store state to the
\* next, and once no request is in flight it equals the maximum of the clamped
\* scores of the submissions the user completed in that scope.
C1_StoredScoreIsMaximum ==
    /\ [][\A k \in DOMAIN zsets : \A m \in DOMAIN zsets[k] :
            /\ k \in DOMAIN zsets'
            /\ m \in DOMAIN zsets'[k]
            /\ zsets'[k][m] >= zsets[k][m]]_vars
    /\ [](Quiescent =>
            \A e \in DOMAIN completed : Stored(e[1], e[2], e[3]) = Some(completed[e]))

\* C2: a POST /api/score with a finite score, run alone, leaves
\* max(previous global score, clamp(score, 0, 1_000_000_000)) in the global set,
\* an absent previous entry counting as -1, and answers with that value as score.
C2_SubmitStoresMaximum ==
    Answered("POST /api/score", 200) =>
        LET expected == Max(PreviousGlobal, Clamp(last.req.score.v))
        IN  /\ Stored(last.req.postId[1], "global", last.req.user[1]) = Some(expected)
            /\ last.resp.body.score = expected

\* alice submits 300 after 500: 500 stays stored and is reported
C2_Witness ==
    /\ Answered("POST /api/score", 200)
    /\ last.req.user = Some("alice")
    /\ last.req.score = NumV(300)
    /\ last.pre.global = Some(500)
    /\ last.resp.body.score = 500
    /\ Stored("p1", "global", "alice") = Some(500)

\* C3: with requests run one after the other, the bestScore of a state record,
\* once set, never decreases (nor disappears) from one write to the next.
C3_BestScoreMonotone ==
    [][\A k \in DOMAIN kv :
            BestScoreAt(kv, k) /= None =>
                /\ BestScoreAt(kv', k) /= None
                /\ BestScoreAt(kv', k)[1] >= BestScoreAt(kv, k)[1]]_vars

\* a submission below the bestScore already recorded has been answered
C3_Witness ==
    /\ Answered("POST /api/score", 200)
    /\ last.pre.state /= None
    /\ "bestScore" \in DOMAIN JSONparse(last.pre.state[1])
    /\ Clamp(last.req.score.v) < JSONparse(last.pre.state[1]).bestScore

\* C4: isNewBest is true iff the clamped score is strictly greater than the
\* caller's global score before the upsert, an absent entry counting as -1.
C4_IsNewBest ==
    Answered("POST /api/score", 200) =>
        (last.resp.body.isNewBest <=> Clamp(last.req.score.v) > PreviousGlobal)

\* a first submission with a negative score, clamped to 0, is a new best
C4_Witness ==
    /\ Answered("POST /api/score", 200)
    /\ last.pre.global = None
    /\ last.req.score.v < 0
    /\ last.resp.body.isNewBest

\* a submission equal to the existing global best is not a new best
C4_WitnessTie ==
    /\ Answered("POST /api/score", 200)
    /\ last.pre.global = Some(Clamp(last.req.score.v))
    /\ ~last.resp.body.isNewBest

\* the caller of the request answered last
Caller == IF last.req.user = None THEN "anonymous" ELSE last.req.user[1]

\* the day a leaderboard request resolves to: its date parameter, or the UTC day
\* it arrived on
ResolvedDay == IF last.req.date /= None THEN last.req.date[1] ELSE DayLabel(last.pre.now)

\* the limit a leaderboard request asks for: 10 by default, within [1, 100]
RequestedLimit ==
    LET param == last.req.limit
    IN  IF param = None \/ param[1].kind /= "number" THEN 10
        ELSE IF param[1].v < 1 THEN 1
        ELSE IF param[1].v > 100 THEN 100
        ELSE param[1].v

\* no two members of the sorted set at key have the same score
NoTies(key) ==
    \A a, b \in zMembers(zsets, key) : a /= b => zsets[key][a] /= zsets[key][b]

\* the members of the sorted set at key with a score strictly above u's
Above(key, u) == {m \in zMembers(zsets, key) : zsets[key][m] > zsets[key][u]}

\* C5: GET /api/leaderboard with limit N returns in top the N highest-scoring
\* members of the resolved daily set, in descending score order, rank 1 being
\* the highest score, also when the set has more than N members.
C5_TopIsHighest ==
    Answered("GET /api/leaderboard", 200) =>
        LET top == last.resp.body.top
            key == DailySet(last.req.postId[1], ResolvedDay)
            members == zMembers(zsets, key)
            listed == {top[i].username : i \in 1..Len(top)}
        IN  /\ Len(top) = Min(RequestedLimit, Cardinality(members))
            /\ \A i \in 1..Len(top) :
                /\ top[i].rank = i
                /\ top[i].username \in members
                /\ top[i].score = zsets[key][top[i].username]
            /\ \A i, j \in 1..Len(top) : i < j => top[i].score >= top[j].score
            /\ \A m \in members \ listed :
                \A i \in 1..Len(top) : zsets[key][m] <= top[i].score

\* C6: me is null exactly when the caller has no entry in the resolved daily set;
\* otherwise me.rank is totalPlayers minus the caller's 0-indexed ascending rank
\* (1 plus the number of higher scores when no scores tie) and me.score is the
\* caller's score in that set.
C6_MeIsCallersRank ==
    Answered("GET /api/leaderboard", 200) =>
        LET body == last.resp.body
            key == DailySet(last.req.postId[1], ResolvedDay)
        IN  /\ body.me = None <=> Caller \notin zMembers(zsets, key)
            /\ body.me /= None =>
                /\ body.me[1].username = Caller
                /\ body.me[1].rank = body.totalPlayers - zRank(zsets, key, Caller)[1]
                /\ body.me[1].score = zsets[key][Caller]
                /\ NoTies(key) => body.me[1].rank = 1 + Cardinality(Above(key, Caller))

\* of two players of the day, the lower scorer asks and gets rank 2
C6_Witness ==
    /\ Answered("GET /api/leaderboard", 200)
    /\ last.resp.body.me /= None
    /\ last.resp.body.me[1].rank = 2
    /\ last.resp.body.totalPlayers = 2
    /\ Above(DailySet(last.req.postId[1], ResolvedDay), Caller) /= {}

\* C7: the rank of a POST /api/score response is totalPlayers minus the user's
\* 0-indexed ascending rank in the global set; when no two global scores are
\* equal it is 1 plus the number of members with a strictly higher score.
C7_SubmitRank ==
    Answered("POST /api/score", 200) =>
        LET body == last.resp.body
            key == GlobalSet(last.req.postId[1])
        IN  /\ body.rank = body.totalPlayers - zRank(zsets, key, Caller)[1]
            /\ NoTies(key) => body.rank = 1 + Cardinality(Above(key, Caller))

\* the higher of two players submits and is ranked 1
C7_Witness ==
    /\ Answered("POST /api/score", 200)
    /\ last.resp.body.rank = 1
    /\ last.resp.body.totalPlayers = 2
    /\ NoTies(GlobalSet(last.req.postId[1]))

\* C8: totalPlayers of a POST /api/score response is the cardinality of the
\* global set, totalPlayers of a GET /api/leaderboard response that of the
\* resolved daily set; after submissions on different days the two differ.
C8_TotalPlayers ==
    /\ Answered("POST /api/score", 200) =>
        last.resp.body.totalPlayers
            = Cardinality(zMembers(zsets, GlobalSet(last.req.postId[1])))
    /\ Answered("GET /api/leaderboard", 200) =>
        last.resp.body.totalPlayers
            = Cardinality(zMembers(zsets, DailySet(last.req.postId[1], ResolvedDay)))

\* two users submitted on different days: a query of the second day counts one
\* player where the global set holds two
C8_Witness ==
    /\ Answered("GET /api/leaderboard", 200)
    /\ ResolvedDay = DayLabel(1)
    /\ last.resp.body.totalPlayers = 1
    /\ Cardinality(zMembers(zsets, GlobalSet(last.req.postId[1]))) = 2
    /\ Cardinality(zMembers(zsets, DailySet(last.req.postId[1], DayLabel(0)))) = 1

\* C9: a leaderboard query reads only the daily set of the day it resolves to
\* (its date parameter, else the current UTC day, echoed in filterDate); the set
\* of a day holds exactly the users who submitted on that day, so a score of day
\* D is in no answer resolved to day D+1 unless resubmitted then, and it stays
\* in day D's set and in the global set.
C9_DailyScope ==
    Quiescent =>
        /\ Answered("GET /api/leaderboard", 200) =>
            LET body == last.resp.body
                members == zMembers(zsets, DailySet(last.req.postId[1], ResolvedDay))
            IN  /\ body.filterDate = ResolvedDay
                /\ \A i \in 1..Len(body.top) : body.top[i].username \in members
                /\ body.me /= None => Caller \in members
                /\ body.totalPlayers = Cardinality(members)
        /\ \A q \in Posts, u \in Users :
            /\ u \in zMembers(zsets, GlobalSet(q)) <=> <<q, "global", u>> \in DOMAIN completed
            /\ \A n \in 0..MaxDay :
                u \in zMembers(zsets, DailySet(q, DayLabel(n)))
                    <=> <<q, DayLabel(n), u>> \in DOMAIN completed

\* alice submitted on day 0 only; her query on day 1, without a date, shows nobody
C9_Witness ==
    /\ Answered("GET /api/leaderboard", 200)
    /\ last.req.date = None
    /\ last.pre.now = 1
    /\ Caller = "alice"
    /\ "alice" \in zMembers(zsets, DailySet("p1", DayLabel(0)))
    /\ "alice" \in zMembers(zsets, GlobalSet("p1"))
    /\ last.resp.body.filterDate = DayLabel(1)
    /\ last.resp.body.top = <<>>
    /\ last.resp.body.me = None
    /\ last.resp.body.totalPlayers = 0

\* C10: GET /api/state answers 404 iff no POST /api/state and no POST /api/score
\* of that user on that post has written the state record before, and otherwise
\* 200 with the record written last; no step removes a state record.
C10_StateFoundIffWritten ==
    [][/\ DOMAIN kv \subseteq DOMAIN kv'
       /\ \A p \in Procs :
            pc[p] = "getState:get" /\ pc'[p] = "idle" =>
                LET who == <<req[p].postId[1],
                             IF req[p].user = None THEN "anonymous" ELSE req[p].user[1]>>
                IN  IF who \in DOMAIN lastWritten
                    THEN last'.resp = [status |-> 200, body |-> lastWritten[who]]
                    ELSE last'.resp.status = 404]_vars

\* a GET after the user's submission returns the record with its bestScore
C10_Witness ==
    /\ last.req.handler = "GET /api/state"
    /\ last.resp.status = 200
    /\ "bestScore" \in DOMAIN last.resp.body
    /\ <<last.req.postId[1], Caller>> \in DOMAIN lastWritten

\* a GET before any write of the user returns 404
C10_WitnessNotFound ==
    /\ last.req.handler = "GET /api/state"
    /\ last.req.postId /= None
    /\ last.resp.status = 404
    /\ lastWritten /= <<>>

---------------------------------------------------------------------------
(* Refusals *)

PostHandlers == {"POST /api/state", "POST /api/score"}

\* C11: when the identity provider resolves no user, POST /api/state and POST
\* /api/score answer 401 whatever the body is, in the step the request arrives
\* in: the request is never in flight at a store operation, and no state record
\* and no leaderboard set changes.
C11_AnonymousRefused ==
    [][nreq' = nreq + 1 =>
        /\ \A p \in Procs :
             pc'[p] /= pc[p] => ~(req'[p].handler \in PostHandlers /\ req'[p].user = None)
        /\ (/\ pc' = pc
            /\ last'.req.handler \in PostHandlers
            /\ last'.req.postId /= None
            /\ last'.req.user = None)
           => last'.resp.status = 401 /\ zsets' = zsets /\ kv' = kv]_vars

\* a submission with a valid score, sent without a login after alice's, is refused
C11_Witness ==
    /\ last.req.handler = "POST /api/score"
    /\ last.req.user = None
    /\ last.req.score = NumV(500)
    /\ last.resp.status = 401
    /\ "alice" \in zMembers(zsets, GlobalSet("p1"))

\* a state with an object as data, sent without a login, is refused
C11_WitnessState ==
    /\ last.req.handler = "POST /api/state"
    /\ last.req.user = None
    /\ last.req.data = ObjV("level" :> "3")
    /\ last.resp.status = 401
    /\ StateRecord("p1", "bob") \in DOMAIN kv

\* C12: POST /api/state by a logged-in user whose data is present but is an
\* array, a primitive or null is answered 400 on arrival and leaves the state
\* record as it was; only an object, or no data at all, is accepted.
C12_DataMustBeObject ==
    [][nreq' = nreq + 1 =>
        /\ \A p \in Procs :
             pc'[p] /= pc[p] /\ req'[p].handler = "POST /api/state"
             => req'[p].data.kind \in {"object", "undefined"}
        /\ (/\ pc' = pc
            /\ last'.req.handler = "POST /api/state"
            /\ last'.req.user /= None
            /\ last'.req.data.kind \in {"array", "string", "null"})
           => last'.resp.status = 400 /\ kv' = kv]_vars

---------------------------------------------------------------------------
(* The state record *)

\* the record stored for the caller of the request answered last, and the one
\* stored for them when that request arrived (<<>> if there was none)
RecordNow == JSONparse(kv[StateRecord(last.req.postId[1], Caller)])
RecordBefore == IF last.pre.state = None THEN <<>> ELSE JSONparse(last.pre.state[1])

\* records a and b agree on field f: both lack it, or both hold the same value
SameField(a, b, f) ==
    IF f \in DOMAIN b THEN f \in DOMAIN a /\ a[f] = b[f] ELSE f \notin DOMAIN a

\* C13: a successful POST /api/state run with no other request interleaved
\* writes a record whose bestScore is that of the record stored before (absent
\* if there was none) and whose data is the request's data when one is given
\* and otherwise the previously stored data; no step of it changes a
\* leaderboard set.
C13_PostStateKeepsBestScore ==
    /\ [](Answered("POST /api/state", 200) =>
            /\ StateRecord(last.req.postId[1], Caller) \in DOMAIN kv
            /\ SameField(RecordNow, RecordBefore, "bestScore")
            /\ IF last.req.data.kind /= "undefined"
               THEN "data" \in DOMAIN RecordNow /\ RecordNow.data = last.req.data
               ELSE SameField(RecordNow, RecordBefore, "data"))
    /\ [][(\/ \E p \in Procs : req[p].handler = "POST /api/state"
           \/ \E p \in Procs : req'[p].handler = "POST /api/state")
          => zsets' = zsets]_vars

\* alice submits 500, posts a state with data, then posts one without: the
\* record keeps bestScore 500 and the data posted before
C13_Witness ==
    /\ Answered("POST /api/state", 200)
    /\ last.req.data = UndefD
    /\ Caller = "alice"
    /\ RecordBefore /= <<>>
    /\ SameField(RecordNow, [bestScore |-> 500, data |-> ObjV("level" :> "3")], "bestScore")
    /\ SameField(RecordNow, [bestScore |-> 500, data |-> ObjV("level" :> "3")], "data")
    /\ zScore(zsets, GlobalSet("p1"), "alice") = Some(500)

\* a first POST /api/state writes a record without a bestScore
C13_WitnessFirst ==
    /\ Answered("POST /api/state", 200)
    /\ last.pre.state = None
    /\ "bestScore" \notin DOMAIN RecordNow

\* C14: POST /api/score by a logged-in user whose score is missing, is not of
\* number type, or is NaN, +Infinity or -Infinity is answered 400 in the step
\* the request arrives in: the request is never in flight at a store operation,
\* and both leaderboard sets and the state record stay as they were.
C14_InvalidScoreRefused ==
    [][nreq' = nreq + 1 =>
        /\ \A p \in Procs :
             pc'[p] /= pc[p] /\ req'[p].handler = "POST /api/score"
             => req'[p].score.kind = "number"
        /\ (/\ pc' = pc
            /\ last'.req.handler = "POST /api/score"
            /\ last'.req.user /= None
            /\ last'.req.score.kind /= "number")
           => last'.resp.status = 400 /\ zsets' = zsets /\ kv' = kv]_vars

\* alice, who holds 500, submits Infinity and is refused
C14_Witness ==
    /\ last.req.handler = "POST /api/score"
    /\ last.req.user = Some("alice")
    /\ last.req.score = InfV
    /\ last.resp.status = 400
    /\ zScore(zsets, GlobalSet("p1"), "alice") = Some(500)
    /\ StateRecord("p1", "alice") \in DOMAIN kv

\* a submission without a score is refused
C14_WitnessMissing ==
    /\ last.req.handler = "POST /api/score"
    /\ last.req.user = Some("bob")
    /\ last.req.score = UndefV
    /\ last.resp.status = 400

---------------------------------------------------------------------------
(* Stored scores *)

InRange(x) == 0 <= x /\ x <= 1000000000

\* C15: in every reachable state of the store, every score held in a global or
\* daily set and every bestScore held in a state record lies in
\* [0, 1_000_000_000], whatever finite scores were submitted.
C15_ScoresInRange ==
    /\ \A k \in DOMAIN zsets : \A m \in DOMAIN zsets[k] : InRange(zsets[k][m])
    /\ \A k \in DOMAIN kv :
         "bestScore" \in DOMAIN JSONparse(kv[k]) => InRange(JSONparse(kv[k]).bestScore)

\* bob submitted 1_000_000_007 and alice -7: the store holds 1_000_000_000 and 0
C15_Witness ==
    /\ Quiescent
    /\ <<"p1", "global", "bob">> \in DOMAIN completed
    /\ <<"p1", "global", "alice">> \in DOMAIN completed
    /\ zScore(zsets, GlobalSet("p1"), "bob") = Some(1000000000)
    /\ zScore(zsets, GlobalSet("p1"), "alice") = Some(0)
    /\ BestScoreAt(kv, StateRecord("p1", "bob")) = Some(1000000000)
    /\ BestScoreAt(kv, StateRecord("p1", "alice")) = Some(0)
    /\ \E k \in DOMAIN zsets : k /= GlobalSet("p1") /\ zScore(zsets, k, "bob") = Some(1000000000)

\* the keys and values of the data of a record, none if the record has no data
DataOf(record) == IF "data" \in DOMAIN record THEN record.data.props ELSE EmptyProps

\* C16: a successful POST /api/score run with no other request interleaved
\* writes a state record whose bestScore is the new global best and whose data
\* holds every key of the data stored before with the value it had, except
\* date, which is the label of the UTC day the request was handled on; no other
\* key is added, removed or changed.
C16_SubmitMirrorsIntoState ==
    Answered("POST /api/score", 200) =>
        /\ StateRecord(last.req.postId[1], Caller) \in DOMAIN kv
        /\ "bestScore" \in DOMAIN RecordNow
        /\ RecordNow.bestScore = Max(PreviousGlobal, Clamp(last.req.score.v))
        /\ Some(RecordNow.bestScore) = Stored(last.req.postId[1], "global", Caller)
        /\ DOMAIN DataOf(RecordNow) = DOMAIN DataOf(RecordBefore) \cup {"date"}
        /\ DataOf(RecordNow)["date"] = DayLabel(last.pre.now)
        /\ \A k \in DOMAIN DataOf(RecordBefore) \ {"date"} :
             DataOf(RecordNow)[k] = DataOf(RecordBefore)[k]

\* alice, whose record holds the data {level: 5, date: old}, submits 300 on the
\* second day: level stays, date becomes that day, bestScore becomes 300
C16_Witness ==
    /\ Answered("POST /api/score", 200)
    /\ Caller = "alice"
    /\ last.pre.now = 1
    /\ DataOf(RecordBefore) = ("level" :> "5" @@ "date" :> "old")
    /\ DataOf(RecordNow) = ("level" :> "5" @@ "date" :> "20270101")
    /\ RecordNow.bestScore = 300

\* a first submission, with no record before: the data is {date} alone
C16_WitnessFirst ==
    /\ Answered("POST /api/score", 200)
    /\ last.pre.state = None
    /\ DOMAIN DataOf(RecordNow) = {"date"}

---------------------------------------------------------------------------
(* The leaderboard's limit *)

\* the limit in force for a limit parameter: 10 when it is absent or not a
\* finite number, and otherwise the parameter brought into [1, 100]
EffectiveLimit(param) ==
    IF param = None \/ param[1].kind /= "number" THEN 10
    ELSE IF param[1].v < 1 THEN 1
    ELSE IF param[1].v > 100 THEN 100
    ELSE param[1].v

\* C17: GET /api/leaderboard uses the limit 10 when the limit parameter is
\* absent or not a finite number and otherwise clamps it to [1, 100]; top has
\* min(limit in force, cardinality of the resolved set) entries, ranked 1, 2, ...
\* in sequence; an empty or never-written set is answered 200 with top = [],
\* me = null and totalPlayers = 0.
C17_LimitAndEmptySet ==
    /\ \A p \in Procs :
         req[p].handler = "GET /api/leaderboard" => loc[p].limit = EffectiveLimit(req[p].limit)
    /\ Quiescent /\ last.req.handler = "GET /api/leaderboard" /\ last.req.postId /= None =>
         LET body == last.resp.body
             members == zMembers(zsets, DailySet(last.req.postId[1], ResolvedDay))
         IN  /\ last.resp.status = 200
             /\ Len(body.top) = Min(EffectiveLimit(last.req.limit), Cardinality(members))
             /\ \A i \in 1..Len(body.top) : body.top[i].rank = i
             /\ members = {} =>
                  body.top = <<>> /\ body.me = None /\ body.totalPlayers = 0

\* without a limit parameter, a set of two members is listed whole
C17_Witness ==
    /\ Answered("GET /api/leaderboard", 200)
    /\ last.req.limit = None
    /\ Len(last.resp.body.top) = 2
    /\ last.resp.body.top[2].rank = 2

\* the limit 1 on a set of two members lists one
C17_WitnessCut ==
    /\ Answered("GET /api/leaderboard", 200)
    /\ last.req.limit = Some(NumV(1))
    /\ last.resp.body.totalPlayers = 2
    /\ Len(last.resp.body.top) = 1

\* the limit 500 is in force as 100, the limit 0 as 1, NaN as 10
C17_WitnessClamped ==
    \E p \in Procs :
        /\ req[p].handler = "GET /api/leaderboard"
        /\ \/ req[p].limit = Some(NumV(500)) /\ loc[p].limit = 100
           \/ req[p].limit = Some(NumV(0)) /\ loc[p].limit = 1
           \/ req[p].limit = Some(NaNV) /\ loc[p].limit = 10

\* the set of a day nobody submitted on, after a submission on the day before
C17_WitnessEmpty ==
    /\ Answered("GET /api/leaderboard", 200)
    /\ zMembers(zsets, GlobalSet("p1")) /= {}
    /\ zMembers(zsets, DailySet("p1", ResolvedDay)) = {}
    /\ last.resp.body.top = <<>>
    /\ last.resp.body.totalPlayers = 0

---------------------------------------------------------------------------
(* Failures *)

\* the number of requests in flight
InFlight == Cardinality({p \in Procs : pc[p] /= "idle"})

\* C18: every request to /api/init, /api/state, /api/score and /api/leaderboard
\* receives exactly one response: the responses sent and the requests in flight
\* add up to the requests started, and a step sends at most one.  A request
\* whose context has no postId is answered 400 on arrival, before the identity
\* is resolved and before any store call.  When a call throws inside the state,
\* score or leaderboard handler the request is answered 500 in that step and its
\* slot is free again, and no other request in flight is touched, so that a
\* later request is handled as usual.
C18_OneResponseEach ==
    /\ [](nresp + InFlight = nreq)
    /\ [][/\ nresp' \in {nresp, nresp + 1}
          /\ \A p \in Procs : pc[p] /= pc'[p] /\ pc'[p] /= "idle" => req'[p].postId /= None
          /\ (nreq' = nreq + 1 /\ pc' = pc /\ last'.req.postId = None) =>
                /\ last'.resp.status = 400
                /\ nfault' = nfault
                /\ zsets' = zsets /\ kv' = kv
          /\ (nfault' = nfault + 1 /\ last'.req.handler /= "GET /api/init") =>
                /\ nresp' = nresp + 1
                /\ last'.resp.status = 500
                /\ \A p \in Procs :
                     IF pc[p] /= pc'[p]
                     THEN pc'[p] = "idle" /\ req'[p] = NoReq /\ loc'[p] = NoLoc
                     ELSE req'[p] = req[p] /\ loc'[p] = loc[p]]_vars

\* alice's submission fails at the write of her state record, after both upserts;
\* bob's submission that follows is answered 200 and counts two players
C18_Witness ==
    /\ nfault = 1
    /\ Answered("POST /api/score", 200)
    /\ Caller = "bob"
    /\ last.resp.body.totalPlayers = 2
    /\ last.resp.body.rank = 1
    /\ StateRecord("p1", "alice") \notin DOMAIN kv
    /\ StateRecord("p1", "bob") \in DOMAIN kv

\* a submission answered 500 while another request is in flight
C18_WitnessFailure ==
    /\ last.req.handler = "POST /api/score"
    /\ last.resp.status = 500
    /\ InFlight = 1
    /\ nresp = 1

\* a request without a postId answered 400 on a store that holds entries
C18_WitnessNoPost ==
    /\ last.req.handler = "GET /api/leaderboard"
    /\ last.req.postId = None
    /\ last.resp.status = 400
    /\ zsets /= <<>>

---------------------------------------------------------------------------
(* Overlapping submissions *)

\* C19: two POST /api/score requests of one user on one post that overlap can
\* lose an update.  The write of the state record stores the maximum of the
\* request's clamped score and the global score the request read before its
\* upserts, whatever the store holds by then; C19_Witness is the state the claim
\* speaks of, with no request in flight and a bestScore below the larger of the
\* two clamped scores.
C19_MirrorWritesStaleMaximum ==
    [][\A p \in Procs :
        pc[p] = "score:set" /\ pc'[p] = "score:zRank" =>
            LET read == loc[p].existingGlobal
                mine == Clamp(req[p].score.v)
                k == StateRecord(req[p].postId[1], req[p].user[1])
            IN  BestScoreAt(kv', k) = Some(IF read /= None /\ read[1] > mine THEN read[1] ELSE mine)]_vars

\* alice's submissions of 300 and 500 overlapped and both were answered 200;
\* nothing is in flight and her record holds bestScore 300
C19_Witness ==
    /\ Quiescent
    /\ nresp = 2
    /\ nfault = 0
    /\ <<"p1", "global", "alice">> \in DOMAIN completed
    /\ completed[<<"p1", "global", "alice">>] = 500
    /\ BestScoreAt(kv, StateRecord("p1", "alice")) = Some(300)

\* the members of the daily sets of post q that the global set lacks or holds
\* with a lower score
DailyAboveGlobal(q) ==
    {<<k, m>> \in UNION {{<<k, m>> : m \in DOMAIN zsets[k]} : k \in DOMAIN zsets \ {GlobalSet(q)}} :
        \/ m \notin zMembers(zsets, GlobalSet(q))
        \/ zsets[k][m] > zsets[GlobalSet(q)][m]}

\* C20: in every reachable state of the store, under any interleaving of POST
\* /api/score requests, every member of a daily set of a post is a member of the
\* post's global set too, and its daily score is at most its global score.
C20_DailyWithinGlobal == \A q \in Posts : DailyAboveGlobal(q) = {}

\* the same, asked only of the states with no request in flight
C20_DailyWithinGlobalAtRest == Quiescent => \A q \in Posts : DailyAboveGlobal(q) = {}

---------------------------------------------------------------------------
(* The mirror of the global score in the state record *)

\* the users whose state record on post q is missing, or holds a bestScore
\* other than their score in the global set of q
NotMirrored(q) ==
    {u \in zMembers(zsets, GlobalSet(q)) :
        BestScoreAt(kv, StateRecord(q, u)) /= Some(zsets[GlobalSet(q)][u])}

\* C21: whenever no request is in flight, every user with an entry in the
\* global set of a post has a state record on that post whose bestScore is the
\* user's score in the global set, after any interleaving of POST /api/score and
\* POST /api/state requests of that user.
C21_StateMirrorsGlobal == Quiescent => \A q \in Posts : NotMirrored(q) = {}

---------------------------------------------------------------------------
(* The bounds of a rank *)

\* C22: in every 200 response of POST /api/score, 1 <= rank <= totalPlayers,
\* and in every response of GET /api/leaderboard with a me, 1 <= me.rank <=
\* totalPlayers, under any interleaving with other submissions: the ascending
\* rank and the cardinality are read by two store calls, and no step removes a
\* member from a set.
C22_RankWithinTotal ==
    /\ [](/\ last.req.handler = "POST /api/score" /\ last.resp.status = 200 =>
               /\ 1 <= last.resp.body.rank
               /\ last.resp.body.rank <= last.resp.body.totalPlayers
          /\ (/\ last.req.handler = "GET /api/leaderboard"
              /\ last.resp.status = 200
              /\ last.resp.body.me /= None) =>
               /\ 1 <= last.resp.body.me[1].rank
               /\ last.resp.body.me[1].rank <= last.resp.body.totalPlayers)
    /\ [][\A k \in DOMAIN zsets :
            k \in DOMAIN zsets' /\ DOMAIN zsets[k] \subseteq DOMAIN zsets'[k]]_vars

\* bob read his ascending rank while alone in the set, alice's lower score was
\* added before he read the cardinality: he is answered rank 2 of 2
C22_Witness ==
    /\ last.req.handler = "POST /api/score"
    /\ last.resp.status = 200
    /\ Caller = "bob"
    /\ last.resp.body.rank = 2
    /\ last.resp.body.totalPlayers = 2
    /\ zScore(zsets, GlobalSet("p1"), "alice") = Some(300)
    /\ zScore(zsets, GlobalSet("p1"), "bob") = Some(700)

\* a leaderboard query that overlaps a submission and answers with a me
C22_WitnessLeaderboard ==
    /\ last.req.handler = "GET /api/leaderboard"
    /\ last.resp.status = 200
    /\ last.resp.body.me /= None
    /\ ~Quiescent
    /\ last.resp.body.totalPlayers = 1

---------------------------------------------------------------------------
(* What a request may change *)

\* the string keys whose value differs after the step, and the <<set, member>>
\* pairs whose score does
ChangedRecords ==
    {k \in DOMAIN kv \cup DOMAIN kv' : redisGet(kv, k) /= redisGet(kv', k)}
ChangedEntries ==
    {e \in UNION {{<<k, m>> : m \in Users \cup {"anonymous"}} : k \in DOMAIN zsets \cup DOMAIN zsets'} :
        zScore(zsets, e[1], e[2]) /= zScore(zsets', e[1], e[2])}

\* the slots whose request takes the step
Acting == {p \in Procs : <<pc[p], loc[p]>> /= <<pc'[p], loc'[p]>>}

\* C23: a POST /api/score or POST /api/state of user u on post p changes only
\* the state record of (p, u) and u's entries in the global set of p and in the
\* set of p for the day the request was handled on; POST /api/state changes no
\* entry at all; GET /api/init, GET /api/state and GET /api/leaderboard change
\* nothing in the store; a step that no request takes changes nothing either.
C23_OnlyOwnKeysChange ==
    [][/\ \A k \in ChangedRecords : \E p \in Acting :
            /\ req[p].handler \in PostHandlers
            /\ k = StateRecord(req[p].postId[1], req[p].user[1])
       /\ \A e \in ChangedEntries : \E p \in Acting :
            /\ req[p].handler = "POST /api/score"
            /\ e[2] = req[p].user[1]
            /\ e[1] \in {GlobalSet(req[p].postId[1]),
                         DailySet(req[p].postId[1], DayLabel(pre[p].now))}]_vars

\* alice submitted 300 on p1 on the first day and 500 on p2 on the second: each
\* post holds its own score, day set and record
C23_Witness ==
    /\ Quiescent
    /\ zsets = (GlobalSet("p1") :> [alice |-> 300] @@ DailySet("p1", DayLabel(0)) :> [alice |-> 300]
                @@ GlobalSet("p2") :> [alice |-> 500]
                @@ DailySet("p2", DayLabel(1)) :> [alice |-> 500])
    /\ BestScoreAt(kv, StateRecord("p1", "alice")) = Some(300)
    /\ BestScoreAt(kv, StateRecord("p2", "alice")) = Some(500)

\* bob's POST /api/state on p1 while alice's submission on p1 is in flight
C23_WitnessOtherUser ==
    /\ last.req.handler = "POST /api/state"
    /\ last.resp.status = 200
    /\ Caller = "bob"
    /\ \E p \in Procs : req[p].handler = "POST /api/score" /\ req[p].user = Some("alice")
                         /\ pc[p] = "score:zRank"
    /\ BestScoreAt(kv, StateRecord("p1", "alice")) = Some(500)

---------------------------------------------------------------------------
(* A submission that fails half way *)

\* the greater of an entry that may be absent and a score
BestOf(entry, score) == IF entry /= None /\ entry[1] > score THEN entry[1] ELSE score

\* C24: a POST /api/score answered 500, run with no other request interleaved,
\* is not atomic.  When the store fails at the reads of the existing scores, the
\* caller's entries and state record are as they were when the request arrived.
\* When it fails at the read or at the write of the state record, after the
\* upserts, both sets hold the new best values while the state record is the one
\* stored when the request arrived.  Nothing repairs the difference: with no
\* request in flight the store changes only when a new request arrives.
C24_FailedSubmissionNotAtomic ==
    /\ [][\A p \in Procs :
            (/\ nfault' = nfault + 1
             /\ pc[p] /= "idle" /\ pc'[p] = "idle"
             /\ req[p].handler = "POST /api/score") =>
                LET q == req[p].postId[1]
                    u == req[p].user[1]
                    day == DayLabel(pre[p].now)
                    mine == Clamp(req[p].score.v)
                    global == zScore(zsets', GlobalSet(q), u)
                    daily == zScore(zsets', DailySet(q, day), u)
                    record == redisGet(kv', StateRecord(q, u))
                IN  /\ last'.resp.status = 500
                    /\ pc[p] = "score:zScore" =>
                         global = pre[p].global /\ daily = pre[p].daily /\ record = pre[p].state
                    /\ pc[p] \in {"score:get", "score:set"} =>
                         /\ global = Some(BestOf(pre[p].global, mine))
                         /\ daily = Some(BestOf(pre[p].daily, mine))
                         /\ record = pre[p].state]_vars
    /\ [][Quiescent /\ nreq' = nreq => zsets' = zsets /\ kv' = kv]_vars

\* alice holds 300; her submission of 500 fails at the state record: both sets
\* hold 500, her record still holds bestScore 300
C24_Witness ==
    /\ Answered("POST /api/score", 500)
    /\ nfault = 1
    /\ Caller = "alice"
    /\ last.pre.global = Some(300)
    /\ zScore(zsets, GlobalSet("p1"), "alice") = Some(500)
    /\ zScore(zsets, DailySet("p1", DayLabel(last.pre.now)), "alice") = Some(500)
    /\ BestScoreAt(kv, StateRecord("p1", "alice")) = Some(300)

\* a first submission that fails at the reads leaves the store empty
C24_WitnessUnchanged ==
    /\ Answered("POST /api/score", 500)
    /\ last.req.user /= None
    /\ nfault = 1
    /\ zsets = <<>>
    /\ kv = <<>>

=============================================================================
